---------------------------- MODULE Spec2Model ----------------------------
(***************************************************************************)
(* USACE/filestore: the chunked upload protocol of the block (local file   *)
(* system) realization BlockFS and of the object-store realization S3FS,   *)
(* NewFileStore, the single-shot calls PutObject and DeleteObjects of      *)
(* BlockFS, and the path builder PathParts.                                *)
(*                                                                         *)
(* A byte of the model stands for one block of data; 0 is the zero byte a  *)
(* file system reads from a hole, the data bytes are those of Bytes.       *)
(***************************************************************************)
EXTENDS Integers, Sequences, FiniteSets, TLC

\* ------------------------------------------------------------------ bounds
\* Largest chunk index a caller passes (indices 0..MaxIdx).
MaxIdx == 1
\* InitializeObjectUpload calls that succeed on the block store.
MaxInits == 1

\* filestore.go:24, in model blocks (one block = 5 MiB).
chunkSize == 2

\* ------------------------------------------------------------------ inputs
Bytes == {1, 2}

Fill(b, n) == [k \in 1..n |-> b]

\* Chunk data: empty, shorter than chunkSize, exactly chunkSize, one longer;
\* filled with one data byte.
ChunkData == {Fill(b, n) : b \in Bytes, n \in 0..(chunkSize + 1)}

ChunkIds == 0..MaxIdx

\* Object paths a caller passes: relative, and with a leading separator.
ObjectPaths == {<<"a">>, <<"/", "a">>}

\* An object path under a directory, and the path of another object.
NestedPath == <<"d", "/", "a">>

OtherPath == <<"b">>

Paths == ObjectPaths \cup {NestedPath, OtherPath}

\* Working directory of the process (any directory other than the root).
Cwd == <<"/", "w">>

\* ------------------------------------------------------------- pure helpers
\* strings.TrimPrefix(s, "/")
TrimPrefix(s) == IF Len(s) > 0 /\ s[1] = "/" THEN Tail(s) ELSE s

\* The file a path names to the operating system: absolute paths as they
\* are, relative paths under the working directory.
Resolve(p) == IF Len(p) > 0 /\ p[1] = "/" THEN p ELSE Cwd \o <<"/">> \o p

\* The path BlockFS hands to os.Create / os.OpenFile: u.ObjectPath as given.
BlockFileName(path) == path

BlockFile(path) == Resolve(BlockFileName(path))

Files == {Resolve(p) : p \in Paths} \cup {Resolve(TrimPrefix(p)) : p \in Paths}

\* filepath.Dir of a resolved file name: the directory that holds it.
Dir(f) == IF Len(f) <= 2 THEN <<"/">> ELSE SubSeq(f, 1, Len(f) - 2)

\* The directories that exist when the process starts.
BaseDirs == {<<"/">>, Cwd}

\* os.MkdirAll(dir): nothing to do for a directory that exists; otherwise
\* made is whether the directory (with its parents) can be made.
MkdirAll(ds, dir, made) == IF dir \notin ds /\ made THEN ds \cup {dir} ELSE ds

\* Whether os.MkdirAll(dir) returns an error.
MkdirAllFails(ds, dir, made) == dir \notin ds /\ ~made

\* os.Create and os.OpenFile(O_CREATE) need the directory of the file.
CanOpen(ds, f) == Dir(f) \in ds

Max(a, b) == IF a > b THEN a ELSE b

\* Mutant: the chunk index taken as the byte offset.
ChunkOffset_Unscaled(chunkId) == chunkId

\* Offset of a chunk in the file: u.ChunkId * chunkSize.
ChunkOffset(chunkId) == chunkId * chunkSize

\* Mutant: the data appended at the end of the file (O_APPEND).
WriteAt_Append(content, data, off) == content \o data

\* (*os.File).WriteAt(data, off) on a file holding content: positional write,
\* the file grows to off+len(data) and a hole reads as zeros; an empty write
\* issues no pwrite and leaves the file as it is.
WriteAt(content, data, off) ==
    IF Len(data) = 0 THEN content
    ELSE [k \in 1..Max(Len(content), off + Len(data)) |->
            IF k > off /\ k <= off + Len(data) THEN data[k - off]
            ELSE IF k <= Len(content) THEN content[k]
            ELSE 0]

NoFile == [exists |-> FALSE, data |-> <<>>]

EmptyFile == [exists |-> TRUE, data |-> <<>>]

\* Mutant: the file opened without truncation.
Create_Keeping(f) == IF f.exists THEN f ELSE EmptyFile

\* os.Create: the file exists and is truncated to length 0.
Create(f) == EmptyFile

\* Mutant: the file truncated when opened (O_TRUNC).
OpenFile_Truncating(f) == EmptyFile

\* os.OpenFile(O_WRONLY|O_CREATE): creates an absent file, keeps the content
\* of an existing one.
OpenFile(f) == IF f.exists THEN f ELSE EmptyFile


\* ------------------------------------------------------------ identifiers
\* UploadResult{}.ID of the zero value, and of BlockFS.WriteChunk.
EmptyID == <<>>

\* An identifier no store ever returned.
BogusID == <<"bogus">>

\* uuid.New().String(): the n-th identifier drawn; no two draws agree.
Uuid(n) == <<"uuid", n>>

\* ------------------------------------------------------------------ state
VARIABLES
    dirs,       \* local file system: the directories that exist
    store,      \* the realization NewFileStore returned: "block" or "s3"
    objectPath, \* the ObjectPath the caller uses for its session
    fs,         \* local file system: file -> [exists, data]
    uuids,      \* identifiers drawn from uuid.New so far
    uploads,    \* object store: multipart uploads, by upload number
    objects,    \* object store: key -> [exists, data]
    last,       \* the last call on the store: its arguments and what it returned
    sess        \* the session since the last successful InitializeObjectUpload,
                \* followed while no chunk index is written twice: per index,
                \* whether WriteChunk succeeded, its data and the identifier it
                \* returned; afterwards only that some index was rewritten, and
                \* whether the last success repeated a followed one (same index
                \* and data)

VARIABLES
    pc,         \* concurrent BlockFS.WriteChunk calls: where each call is
    chunk,      \* the Data of each call
    pos,        \* bytes of its Data each call's WriteAt has written
    held,       \* whether each call holds an open file handle
    mu          \* the mutexes: whether each is locked

conc == <<pc, chunk, pos, held, mu>>

VARIABLES
    pp,         \* a PathParts value: the backing array of pp.Parts and its length
    tp          \* the ToPath / ToFilePath calls on pp: where each call is, its
                \* arguments, the slice append gave it and what it returned

pathParts == <<pp, tp>>

vars == <<dirs, store, objectPath, fs, uuids, uploads, objects, last, sess, conc, pathParts>>

\* A call and its result: op, the UploadConfig / CompletedObjectUploadConfig
\* fields (path is the ObjectPath), err (whether a non-nil error was returned) and the UploadResult.
\* pn lists the part numbers the call sent to the object store.
Call(op, path, uid, idx, data, man, pn, err, id, size) ==
    [op |-> op, path |-> path, uid |-> uid, idx |-> idx, data |-> data, man |-> man,
     pn |-> pn, err |-> err, id |-> id, size |-> size]

NoCall == Call("none", <<>>, <<>>, 0, <<>>, <<>>, <<>>, FALSE, <<>>, 0)

NoSession ==
    [open |-> FALSE, has |-> [i \in ChunkIds |-> FALSE],
     data |-> [i \in ChunkIds |-> <<>>], id |-> [i \in ChunkIds |-> <<>>],
     rewritten |-> FALSE, repeat |-> FALSE]

NewSession == [NoSession EXCEPT !.open = TRUE]

\* The session after one more successful WriteChunk(idx, data) returning id.
Written(s, idx, data, id) ==
    IF s.rewritten \/ s.has[idx]
    THEN [NoSession EXCEPT !.open = s.open, !.rewritten = TRUE,
                           !.repeat = s.has[idx] /\ s.data[idx] = data]
    ELSE [s EXCEPT !.has[idx] = TRUE, !.data[idx] = data, !.id[idx] = id]

\* ------------------------------------------------------- BlockFS handlers
\* filesystemstore.go:110-121.  os.MkdirAll's error is dropped; os.Create
\* decides.  made is whether a missing directory can be made, created is
\* whether the file system lets the file be created in its directory.
BlockInitializeObjectUpload(path, made, created) ==
    /\ store = "block"
    /\ LET f == BlockFile(path) IN
        /\ dirs' = MkdirAll(dirs, Dir(f), made)
        /\ IF ~(created /\ CanOpen(dirs', f))
           THEN /\ last' = Call("init", path, <<>>, 0, <<>>, <<>>, <<>>, TRUE, EmptyID, 0)
                /\ UNCHANGED <<fs, uuids, sess>>
           ELSE /\ fs' = [fs EXCEPT ![f] = Create(fs[f])]
                /\ uuids' = uuids + 1
                /\ last' = Call("init", path, <<>>, 0, <<>>, <<>>, <<>>, FALSE, Uuid(uuids + 1), 0)
                /\ sess' = NewSession
    /\ UNCHANGED <<store, objectPath, uploads, objects, conc, pathParts>>

\* filesystemstore.go:123-137.  opened is whether the file system lets the
\* file be opened in its directory.  WriteAt rejects a negative offset;
\* result.WriteSize is set either way.
BlockWriteChunk(uid, path, idx, data, opened) ==
    /\ store = "block"
    /\ LET f == BlockFile(path)
           off == ChunkOffset(idx)
       IN
        IF ~(opened /\ CanOpen(dirs, f))
        THEN /\ last' = Call("write", path, uid, idx, data, <<>>, <<>>, TRUE, EmptyID, 0)
             /\ UNCHANGED <<fs, sess>>
        ELSE IF off < 0
        THEN /\ fs' = [fs EXCEPT ![f] = OpenFile(fs[f])]
             /\ last' = Call("write", path, uid, idx, data, <<>>, <<>>, TRUE, EmptyID, Len(data))
             /\ UNCHANGED sess
        ELSE /\ fs' = [fs EXCEPT ![f] =
                        [exists |-> TRUE, data |-> WriteAt(OpenFile(fs[f]).data, data, off)]]
             /\ last' = Call("write", path, uid, idx, data, <<>>, <<>>, FALSE, EmptyID, Len(data))
             /\ sess' = Written(sess, idx, data, EmptyID)
    /\ UNCHANGED <<dirs, store, objectPath, uuids, uploads, objects, conc, pathParts>>

\* Mutant: completion that moves the file away from the path.
BlockCompleteObjectUpload_Moving(uid, path, man) ==
    /\ store = "block"
    /\ fs' = [fs EXCEPT ![BlockFile(path)] = NoFile]
    /\ last' = Call("complete", path, uid, 0, <<>>, man, <<>>, FALSE, EmptyID, 0)
    /\ UNCHANGED <<dirs, store, objectPath, uuids, uploads, objects, sess, conc, pathParts>>

\* filesystemstore.go:139-142: returns nil.
BlockCompleteObjectUpload(uid, path, man) ==
    /\ store = "block"
    /\ last' = Call("complete", path, uid, 0, <<>>, man, <<>>, FALSE, EmptyID, 0)
    /\ UNCHANGED <<dirs, store, objectPath, fs, uuids, uploads, objects, sess, conc, pathParts>>

\* ------------------------------------------------- object-store backend
\* The UploadId of the n-th multipart upload the backend registers.
UploadID(n) == <<"upload", n>>

\* The content-integrity tag the backend computes for a part.
ETagOf(data) == <<"etag">> \o data

NoObject == [exists |-> FALSE, data |-> <<>>]

\* The upload an UploadId and key name: its number, or 0 when the backend
\* knows no such upload in progress under that key.
FindUpload(ups, key, uid) ==
    IF \E n \in 1..Len(ups) : UploadID(n) = uid /\ ups[n].active /\ ups[n].key = key
    THEN CHOOSE n \in 1..Len(ups) : UploadID(n) = uid
    ELSE 0

\* s3.CreateMultipartUpload: registers an upload for the key.
CreateMultipartUpload(ups, key) ==
    Append(ups, [key |-> key, active |-> TRUE, parts |-> <<>>])

\* s3.UploadPart accepts a part of an upload in progress, numbered from 1.
UploadPartOK(ups, key, uid, partNumber) ==
    FindUpload(ups, key, uid) # 0 /\ partNumber >= 1

\* s3.UploadPart stores the part under its number, replacing an earlier one.
UploadPart(ups, key, uid, partNumber, data) ==
    LET n == FindUpload(ups, key, uid)
        old == ups[n].parts
    IN [ups EXCEPT ![n].parts =
            [k \in (DOMAIN old) \cup {partNumber} |->
                IF k = partNumber THEN data ELSE old[k]]]

\* s3.CompleteMultipartUpload accepts a non-empty part list of an upload in
\* progress, in ascending part order, each entry naming an uploaded part by
\* the tag the backend recorded for it.
CompleteOK(ups, key, uid, cp) ==
    LET n == FindUpload(ups, key, uid) IN
    /\ n # 0
    /\ Len(cp) >= 1
    /\ \A k \in 1..Len(cp) :
        /\ cp[k].PartNumber \in DOMAIN ups[n].parts
        /\ cp[k].ETag = ETagOf(ups[n].parts[cp[k].PartNumber])
        /\ k > 1 => cp[k - 1].PartNumber < cp[k].PartNumber

RECURSIVE Assemble(_, _)
\* The listed parts' data, one after another.
Assemble(parts, cp) ==
    IF cp = <<>> THEN <<>>
    ELSE parts[Head(cp).PartNumber] \o Assemble(parts, Tail(cp))

\* ---------------------------------------------------------- S3FS handlers
\* s3store.go:197-198, 213-214, 238-239: the object key.
S3Key(path) == TrimPrefix(path)

\* Mutant: the chunk index sent as the part number.
PartNumber_ZeroBased(chunkId) == chunkId

\* s3store.go:216
PartNumber(chunkId) == chunkId + 1

\* s3store.go:245: the part number of manifest entry i (0-based).
CompletedPartNumber(i) == i + 1

\* s3store.go:241-247
CompletedParts(man) ==
    [k \in 1..Len(man) |-> [ETag |-> man[k], PartNumber |-> CompletedPartNumber(k - 1)]]

PartNumbers(cp) == [k \in 1..Len(cp) |-> cp[k].PartNumber]

\* s3store.go:194-210.  reachable is whether the request reaches the backend.
\* The model follows one multipart upload of the object store.
S3InitializeObjectUpload(path, reachable) ==
    /\ store = "s3"
    /\ uploads = <<>>
    /\ IF ~reachable
       THEN /\ last' = Call("init", path, <<>>, 0, <<>>, <<>>, <<>>, TRUE, EmptyID, 0)
            /\ UNCHANGED <<uploads, sess>>
       ELSE /\ uploads' = CreateMultipartUpload(uploads, S3Key(path))
            /\ sess' = NewSession
            /\ last' = Call("init", path, <<>>, 0, <<>>, <<>>, <<>>, FALSE, UploadID(Len(uploads) + 1), 0)
    /\ UNCHANGED <<dirs, store, objectPath, fs, uuids, objects, conc, pathParts>>

\* s3store.go:212-235
S3WriteChunk(uid, path, idx, data, reachable) ==
    /\ store = "s3"
    /\ LET key == S3Key(path)
           partNumber == PartNumber(idx)
       IN
        IF ~reachable \/ ~UploadPartOK(uploads, key, uid, partNumber)
        THEN /\ last' = Call("write", path, uid, idx, data, <<>>, <<partNumber>>, TRUE, EmptyID, 0)
             /\ UNCHANGED <<uploads, sess>>
        ELSE /\ uploads' = UploadPart(uploads, key, uid, partNumber, data)
             /\ last' = Call("write", path, uid, idx, data, <<>>, <<partNumber>>, FALSE, ETagOf(data), Len(data))
             /\ sess' = Written(sess, idx, data, ETagOf(data))
    /\ UNCHANGED <<dirs, store, objectPath, fs, uuids, objects, conc, pathParts>>

\* Mutant: the backend's error dropped.
S3CompleteError_Dropped(backendError) == FALSE

\* What S3FS.CompleteObjectUpload returns for the backend's answer
\* (s3store.go:256-257): the backend's error, as it is.
S3CompleteError(backendError) == backendError

\* s3store.go:237-258
S3CompleteObjectUpload(uid, path, man, reachable) ==
    /\ store = "s3"
    /\ LET key == S3Key(path)
           cp == CompletedParts(man)
           n == FindUpload(uploads, key, uid)
       IN
        IF ~reachable \/ ~CompleteOK(uploads, key, uid, cp)
        THEN /\ last' = Call("complete", path, uid, 0, <<>>, man, PartNumbers(cp), S3CompleteError(TRUE), EmptyID, 0)
             /\ UNCHANGED <<uploads, objects>>
        ELSE /\ objects' = [objects EXCEPT ![key] =
                                [exists |-> TRUE, data |-> Assemble(uploads[n].parts, cp)]]
             /\ uploads' = [uploads EXCEPT ![n].active = FALSE]
             /\ last' = Call("complete", path, uid, 0, <<>>, man, PartNumbers(cp), S3CompleteError(FALSE), EmptyID, 0)
    /\ UNCHANGED <<dirs, store, objectPath, fs, uuids, sess, conc, pathParts>>

\* ----------------------------------------------------- the caller's inputs
\* The UploadID the caller holds for its session: the one the last
\* successful InitializeObjectUpload returned.
HeldUploadID == IF store = "block" THEN Uuid(uuids) ELSE UploadID(Len(uploads))

\* The identifiers WriteChunk returned for the indices 0..n-1, in index
\* order (the empty identifier where it returned none).
Returned(n) == [k \in 1..n |-> sess.id[k - 1]]

\* m with entry k replaced by an identifier no store returned.
Forged(m, k) == [m EXCEPT ![k] = BogusID]

\* m with entries k and k+1 exchanged.
Swapped(m, k) == [m EXCEPT ![k] = m[k + 1], ![k + 1] = m[k]]

\* Manifests a caller passes: the identifiers it was given for the first n
\* indices in index order, and these with one entry forged, with two
\* neighbours out of order, or with the first entry left out.
Manifests ==
    LET good == {Returned(n) : n \in 0..(MaxIdx + 1)} IN
    good \cup {Tail(m) : m \in good \ {<<>>}}
         \cup UNION {{Forged(m, k) : k \in 1..Len(m)} : m \in good}
         \cup UNION {{Swapped(m, k) : k \in 1..(Len(m) - 1)} : m \in good}

\* -------------------------------------------------------------- behaviour
\* filestore.go:87-119: NewFileStore returns one of the two realizations.
\* The goroutines of the concurrent calls; goroutine g writes chunk g-1.
Goroutines == 1..(MaxIdx + 1)

NoCalls ==
    /\ pc = [g \in Goroutines |-> "idle"]
    /\ chunk = [g \in Goroutines |-> <<>>]
    /\ pos = [g \in Goroutines |-> 0]
    /\ held = [g \in Goroutines |-> FALSE]
    /\ mu = [m \in Goroutines |-> FALSE]

NoPathParts == [arr |-> <<>>, len |-> 0]

Fresh ==
    /\ dirs = BaseDirs
    /\ pp = NoPathParts
    /\ tp = <<>>
    /\ fs = [f \in Files |-> NoFile]
    /\ uuids = 0
    /\ uploads = <<>>
    /\ objects = [k \in {S3Key(p) : p \in Paths} |-> NoObject]
    /\ last = NoCall
    /\ sess = NoSession
    /\ NoCalls

Init ==
    /\ store \in {"block", "s3"}
    /\ objectPath = <<"a">>
    /\ Fresh

\* A caller that keeps to one ObjectPath and the UploadID it was given, on
\* a file system and a network that do not fail.
Next ==
    \/ /\ uuids < MaxInits
       /\ BlockInitializeObjectUpload(objectPath, TRUE, TRUE)
    \/ \E idx \in ChunkIds, data \in ChunkData :
        BlockWriteChunk(HeldUploadID, objectPath, idx, data, TRUE)
    \/ \E man \in Manifests :
        BlockCompleteObjectUpload(HeldUploadID, objectPath, man)
    \/ S3InitializeObjectUpload(objectPath, TRUE)
    \/ \E idx \in ChunkIds, data \in ChunkData :
        S3WriteChunk(HeldUploadID, objectPath, idx, data, TRUE)
    \/ \E man \in Manifests :
        S3CompleteObjectUpload(HeldUploadID, objectPath, man, TRUE)

Spec == Init /\ [][Next]_vars

\* The same caller, with either form of the ObjectPath.
InitAnyPath ==
    /\ store \in {"block", "s3"}
    /\ objectPath \in ObjectPaths
    /\ Fresh

SpecAnyPath == InitAnyPath /\ [][Next]_vars

\* ------------------------------------------- concurrent BlockFS.WriteChunk
\* filesystemstore.go:126: the mutex a call locks is one it has just made.
MutexOf(g) == g

\* filesystemstore.go:124-128: the call of goroutine g for chunk g-1 makes its
\* mutex and locks it.
WriteChunkLock(g, data) ==
    /\ pc[g] = "idle"
    /\ ~mu[MutexOf(g)]
    /\ mu' = [mu EXCEPT ![MutexOf(g)] = TRUE]
    /\ chunk' = [chunk EXCEPT ![g] = data]
    /\ pc' = [pc EXCEPT ![g] = "locked"]
    /\ UNCHANGED <<dirs, store, objectPath, fs, uuids, uploads, objects, last, sess, pos, held, pathParts>>

\* filesystemstore.go:129-133: os.OpenFile gives the call a file handle.
WriteChunkOpen(g, path) ==
    /\ pc[g] = "locked"
    /\ fs' = [fs EXCEPT ![BlockFile(path)] = OpenFile(@)]
    /\ held' = [held EXCEPT ![g] = TRUE]
    /\ pc' = [pc EXCEPT ![g] = "opened"]
    /\ UNCHANGED <<dirs, store, objectPath, uuids, uploads, objects, last, sess, chunk, pos, mu, pathParts>>

\* filesystemstore.go:134: WriteAt issues positional writes until the data
\* is written; each writes the next byte, at the least.
WriteChunkWriteAt(g, path) ==
    /\ pc[g] = "opened"
    /\ pos[g] < Len(chunk[g])
    /\ fs' = [fs EXCEPT ![BlockFile(path)].data =
                WriteAt(@, <<chunk[g][pos[g] + 1]>>, ChunkOffset(g - 1) + pos[g])]
    /\ pos' = [pos EXCEPT ![g] = @ + 1]
    /\ UNCHANGED <<dirs, store, objectPath, uuids, uploads, objects, last, sess, pc, chunk, held, mu, pathParts>>

\* filesystemstore.go:133, 135-136: WriteAt has returned, the call returns
\* and its deferred f.Close() runs.
WriteChunkClose(g) ==
    /\ pc[g] = "opened"
    /\ pos[g] = Len(chunk[g])
    /\ held' = [held EXCEPT ![g] = FALSE]
    /\ pc' = [pc EXCEPT ![g] = "closed"]
    /\ UNCHANGED <<dirs, store, objectPath, fs, uuids, uploads, objects, last, sess, chunk, pos, mu, pathParts>>

\* filesystemstore.go:128: the deferred mutex.Unlock() runs last.
WriteChunkUnlock(g) ==
    /\ pc[g] = "closed"
    /\ mu' = [mu EXCEPT ![MutexOf(g)] = FALSE]
    /\ pc' = [pc EXCEPT ![g] = "returned"]
    /\ UNCHANGED <<dirs, store, objectPath, fs, uuids, uploads, objects, last, sess, chunk, pos, held, pathParts>>

\* A block store after InitializeObjectUpload(objectPath), no call running.
InitConc ==
    /\ dirs = BaseDirs
    /\ pp = NoPathParts
    /\ tp = <<>>
    /\ store = "block"
    /\ objectPath = <<"a">>
    /\ fs = [f \in Files |-> IF f = BlockFile(<<"a">>) THEN EmptyFile ELSE NoFile]
    /\ uuids = 1
    /\ uploads = <<>>
    /\ objects = [k \in {S3Key(p) : p \in Paths} |-> NoObject]
    /\ last = Call("init", <<"a">>, <<>>, 0, <<>>, <<>>, <<>>, FALSE, Uuid(1), 0)
    /\ sess = NewSession
    /\ NoCalls

\* One WriteChunk call per chunk index, each in its own goroutine.
NextConc ==
    \/ \E g \in Goroutines, data \in ChunkData : WriteChunkLock(g, data)
    \/ \E g \in Goroutines : WriteChunkOpen(g, objectPath)
    \/ \E g \in Goroutines : WriteChunkWriteAt(g, objectPath)
    \/ \E g \in Goroutines : WriteChunkClose(g)
    \/ \E g \in Goroutines : WriteChunkUnlock(g)

SpecConc == InitConc /\ [][NextConc]_vars

\* ------------------------------------------------------ what the claims use
\* The object at the caller's ObjectPath: the local file for BlockFS, the
\* object under the key for S3FS.
Object == IF store = "block" THEN fs[BlockFile(objectPath)] ELSE objects[S3Key(objectPath)]

RECURSIVE ConcatChunks(_)
\* chunk[0] ++ ... ++ chunk[n-1] of the session.
ConcatChunks(n) == IF n = 0 THEN <<>> ELSE ConcatChunks(n - 1) \o sess.data[n - 1]

\* The session is followed: initialized, no index written twice.
Followed == sess.open /\ ~sess.rewritten

\* WriteChunk succeeded exactly once for each index 0..n-1 and for no other.
WroteExactly(n) == Followed /\ \A i \in ChunkIds : sess.has[i] <=> i < n

\* The last call was a CompleteObjectUpload that returned nil, given the
\* identifiers returned for the indices 0..n-1 in index order.
CompletedWith(n) == last.op = "complete" /\ ~last.err /\ last.man = Returned(n)

\* Every chunk of 0..n-1 but the last is exactly chunkSize long.
FixedSize(n) == \A i \in 0..(n - 2) : Len(sess.data[i]) = chunkSize

\* C1: after a valid session (initialize, one successful WriteChunk for each
\* index 0..N-1 with N >= 1, for BlockFS every chunk but the last chunkSize
\* long, then a successful complete with the returned identifiers in index
\* order) the object exists and holds exactly chunk[0] ++ ... ++ chunk[N-1].
C1_ValidSessionAssembles ==
    \A n \in 1..(MaxIdx + 1) :
        (WroteExactly(n) /\ CompletedWith(n) /\ (store = "block" => FixedSize(n)))
            => Object.exists /\ Object.data = ConcatChunks(n)

\* A block session of MaxIdx+1 chunks whose last chunk is shorter than
\* chunkSize and not empty has been completed.
C1_Witness ==
    /\ store = "block"
    /\ WroteExactly(MaxIdx + 1) /\ CompletedWith(MaxIdx + 1) /\ FixedSize(MaxIdx + 1)
    /\ Len(sess.data[MaxIdx]) \in 1..(chunkSize - 1)
    /\ Len(Object.data) = MaxIdx * chunkSize + Len(sess.data[MaxIdx])

\* The indices whose chunk covers byte k (1-based) when chunk i lies at
\* offset i * chunkSize.
Covering(k) ==
    {i \in ChunkIds : sess.has[i] /\ k > i * chunkSize /\ k <= i * chunkSize + Len(sess.data[i])}

SetMax(S) == CHOOSE x \in S : \A y \in S : y <= x

\* The chunks of the session laid out in index order, chunk i at offset
\* i * chunkSize: a byte two chunks cover is the higher index's, a byte none
\* covers is zero.
IndexOrderLayout ==
    LET ends == {i * chunkSize + Len(sess.data[i]) :
                    i \in {j \in ChunkIds : sess.has[j] /\ Len(sess.data[j]) > 0}}
        n == IF ends = {} THEN 0 ELSE SetMax(ends)
    IN [k \in 1..n |->
            IF Covering(k) = {} THEN 0
            ELSE LET i == SetMax(Covering(k)) IN sess.data[i][k - i * chunkSize]]

\* C2 as stated: whatever the order of the WriteChunk calls of a session with
\* distinct indices, the block file is the chunks laid out in index order.
C2_AnyOrderSameObject ==
    (store = "block" /\ Followed) => Object.data = IndexOrderLayout

\* C2 amended: whatever the order of the WriteChunk calls of a session with
\* distinct indices, (BlockFS, chunks at most chunkSize long) the file is the
\* chunks laid out in index order, chunk i at offset i * chunkSize, and (S3FS)
\* the object completed with the identifiers of 0..N-1 is chunk[0] ++ ... ++
\* chunk[N-1], also when further indices were written.
C2_AnyOrderSameObjectBounded ==
    /\ (store = "block" /\ Followed /\ \A i \in ChunkIds : Len(sess.data[i]) <= chunkSize)
            => Object.data = IndexOrderLayout
    /\ \A n \in 1..(MaxIdx + 1) :
        (store = "s3" /\ Followed /\ CompletedWith(n) /\ \A i \in 0..(n - 1) : sess.has[i])
            => Object.data = ConcatChunks(n)

\* Index MaxIdx was written before index 0, and the block file holds both.
C2_Witness ==
    /\ store = "block" /\ Followed
    /\ last.op = "write" /\ ~last.err /\ last.idx = 0 /\ Len(last.data) = chunkSize
    /\ sess.has[MaxIdx] /\ Len(sess.data[MaxIdx]) = chunkSize
    /\ Len(Object.data) = (MaxIdx + 1) * chunkSize

\* The step is a successful WriteChunk repeating, with the same data, the
\* successful WriteChunk of its index.
RepeatsWrite ==
    /\ last'.op = "write" /\ ~last'.err
    /\ Followed /\ sess.has[last'.idx] /\ sess.data[last'.idx] = last'.data

StoredState == <<fs, uploads, objects>>

\* C3 as stated: repeating a successful WriteChunk with the same index and
\* data leaves the stored state as it was and (S3FS) returns the same
\* identifier.
C3_RepeatIsNoop ==
    [][RepeatsWrite =>
        /\ StoredState' = StoredState
        /\ store = "s3" => last'.id = sess.id[last'.idx]]_vars

\* C3 amended: the same, for BlockFS when every chunk written in the
\* session so far is at most chunkSize long.
C3_RepeatIsNoopBounded ==
    [][(RepeatsWrite /\ (store = "block" => \A i \in ChunkIds : Len(sess.data[i]) <= chunkSize)) =>
        /\ StoredState' = StoredState
        /\ store = "s3" => last'.id = sess.id[last'.idx]]_vars

\* A chunk was written again with the same data after another index was
\* written in between.
C3_Witness ==
    /\ sess.open /\ sess.repeat
    /\ last.op = "write" /\ ~last.err /\ last.idx = 0 /\ Len(last.data) = chunkSize
    /\ Len(Object.data) > chunkSize
    /\ SubSeq(Object.data, 1, chunkSize) = last.data

\* C6: S3FS.WriteChunk sends chunk index i as part number i+1 and
\* CompleteObjectUpload sends manifest entry i (0-based) as part number i+1;
\* no part number below 1 is sent; so a complete the backend accepts has, at
\* every position i, the identifier returned for the chunk written with
\* index i.
C6_PartNumbering ==
    store = "s3" =>
        /\ last.op = "write" => last.pn = <<last.idx + 1>>
        /\ last.op = "complete" =>
            /\ Len(last.pn) = Len(last.man)
            /\ \A k \in 1..Len(last.pn) : last.pn[k] = (k - 1) + 1
        /\ \A k \in 1..Len(last.pn) : last.pn[k] >= 1
        /\ (last.op = "write" /\ ~last.err) =>
            /\ (last.idx + 1) \in DOMAIN uploads[1].parts
            /\ uploads[1].parts[last.idx + 1] = last.data
        /\ (last.op = "complete" /\ ~last.err /\ Followed) =>
            \A k \in 1..Len(last.man) : sess.has[k - 1] /\ last.man[k] = sess.id[k - 1]

\* The backend accepted a complete of MaxIdx+1 parts whose identifiers
\* differ from one another.
C6_Witness ==
    /\ store = "s3" /\ Followed
    /\ last.op = "complete" /\ ~last.err /\ Len(last.man) = MaxIdx + 1
    /\ last.man[1] # last.man[MaxIdx + 1]
    /\ last.pn[MaxIdx + 1] = MaxIdx + 1

\* The identifier the backend recorded for part k of the upload, or the
\* empty identifier when it recorded none.
Recorded(k) ==
    IF uploads # <<>> /\ k \in DOMAIN uploads[1].parts
    THEN ETagOf(uploads[1].parts[k])
    ELSE EmptyID

\* Some entry of the manifest is not the identifier recorded for the part at
\* its position.
Mismatch(man) == \E k \in 1..Len(man) : man[k] # Recorded(k)

\* C7: S3FS.CompleteObjectUpload with a manifest of which some entry differs
\* from the identifier the backend recorded for the part at that position
\* returns an error and produces no object.
C7_MismatchFails ==
    [][(store = "s3" /\ last'.op = "complete" /\ Mismatch(last'.man)) =>
        last'.err /\ objects' = objects]_vars

\* A complete whose entries are those returned, out of order, has failed.
C7_Witness ==
    /\ store = "s3" /\ Followed /\ \A i \in ChunkIds : sess.has[i]
    /\ sess.id[0] # sess.id[1]
    /\ last.op = "complete" /\ last.err
    /\ last.man = Swapped(Returned(MaxIdx + 1), 1)
    /\ ~Object.exists

\* Some chunk of 0..n-1 that is not chunkSize long is followed by a chunk
\* that is not empty.
Misaligned(n) ==
    \E i \in 0..(n - 2) :
        /\ Len(sess.data[i]) # chunkSize
        /\ \E j \in (i + 1)..(n - 1) : Len(sess.data[j]) > 0

\* A successful BlockFS.WriteChunk has put its data at offset idx * chunkSize.
WroteAtOffset ==
    (last.op = "write" /\ ~last.err /\ Len(last.data) > 0) =>
        /\ Len(Object.data) >= last.idx * chunkSize + Len(last.data)
        /\ SubSeq(Object.data, last.idx * chunkSize + 1,
                  last.idx * chunkSize + Len(last.data)) = last.data

NothingWritten == Followed /\ \A i \in ChunkIds : ~sess.has[i]

\* C9: initialize, no WriteChunk, complete with the empty manifest: S3FS
\* returns an error (and there is no object), BlockFS returns nil and the
\* object is an empty file.
C9_EmptySession ==
    (NothingWritten /\ last.op = "complete" /\ last.man = <<>>) =>
        IF store = "s3"
        THEN last.err /\ ~Object.exists
        ELSE ~last.err /\ Object.exists /\ Object.data = <<>>

\* The object store has refused the empty manifest of a session without
\* chunks.
C9_Witness ==
    /\ store = "s3" /\ NothingWritten /\ uploads # <<>> /\ uploads[1].active
    /\ last.op = "complete" /\ last.man = <<>> /\ last.err

\* C10: InitializeObjectUpload and WriteChunk strip a leading separator from
\* the ObjectPath: what a successful call with "/"+p creates or addresses is
\* the file, or the upload's key, that p names.
C10_LeadingSeparatorStripped ==
    (last.op \in {"init", "write"} /\ ~last.err) =>
        IF store = "s3"
        THEN uploads[1].key = TrimPrefix(objectPath)
        ELSE fs[Resolve(TrimPrefix(objectPath))].exists

\* C4: no two WriteChunk calls on one BlockFS are both between acquiring
\* the file handle (os.OpenFile) and releasing it (Close).
C4_OpenWriteCloseSerialized ==
    \A g, h \in Goroutines : g # h => ~(held[g] /\ held[h])

AllReturned == \A g \in Goroutines : pc[g] = "returned"

RECURSIVE SequentialWrites(_)
\* The file after the calls of goroutines 1..n run one after another on the
\* empty file.
SequentialWrites(n) ==
    IF n = 0 THEN <<>>
    ELSE WriteAt(SequentialWrites(n - 1), chunk[n], ChunkOffset(n - 1))

\* C5: concurrent BlockFS.WriteChunk calls for different indices, each chunk
\* at most chunkSize long: once all have returned, however their steps
\* interleaved, the file is what the calls run one after another produce.
C5_ConcurrentAsSequential ==
    (AllReturned /\ \A g \in Goroutines : Len(chunk[g]) <= chunkSize)
        => Object.data = SequentialWrites(MaxIdx + 1)

\* All calls have returned, each having written a whole chunk of chunkSize
\* bytes that differs from its neighbour's.
C5_Witness ==
    /\ AllReturned
    /\ \A g \in Goroutines : Len(chunk[g]) = chunkSize /\ pos[g] = chunkSize
    /\ chunk[1] # chunk[2]
    /\ Len(Object.data) = (MaxIdx + 1) * chunkSize

\* ------------------------------------ BlockFS on a file system that may fail
\* A block store, a caller that keeps to one ObjectPath under a directory
\* that does not exist yet, chunk indices that may be negative, and a file
\* system that may refuse to make a directory or to open a file.
\* Chunk data of this caller: empty, or shorter than chunkSize.
ShortChunkData == {Fill(b, n) : b \in Bytes, n \in 0..1}

InitBlockEnv ==
    /\ store = "block"
    /\ objectPath = NestedPath
    /\ Fresh

NextBlockEnv ==
    \/ /\ uuids <= MaxInits
       /\ \E made \in BOOLEAN, created \in BOOLEAN :
            BlockInitializeObjectUpload(objectPath, made, created)
    \/ \E idx \in {-1} \cup ChunkIds, data \in ShortChunkData, opened \in BOOLEAN :
        BlockWriteChunk(HeldUploadID, objectPath, idx, data, opened)
    \/ \E man \in Manifests :
        BlockCompleteObjectUpload(HeldUploadID, objectPath, man)

SpecBlockEnv == InitBlockEnv /\ [][NextBlockEnv]_vars

\* The identifiers BlockFS.InitializeObjectUpload has returned so far.
Issued == {Uuid(k) : k \in 1..uuids}

\* C11: a BlockFS.InitializeObjectUpload that returns without error leaves
\* an empty file at the path, whatever was there before, in a directory that
\* exists, and returns an identifier no earlier call returned.
C11_InitLeavesEmptyFile ==
    [][(store = "block" /\ last'.op = "init" /\ ~last'.err) =>
        /\ fs'[Resolve(objectPath)] = [exists |-> TRUE, data |-> <<>>]
        /\ Dir(Resolve(objectPath)) \in dirs'
        /\ last'.id # EmptyID
        /\ last'.id \notin Issued]_vars

\* A second InitializeObjectUpload has succeeded on the path under the
\* directory the first one made.
C11_Witness ==
    /\ store = "block" /\ last.op = "init" /\ ~last.err
    /\ last.id = Uuid(2)
    /\ Dir(Resolve(objectPath)) \notin BaseDirs
    /\ fs[Resolve(objectPath)] = [exists |-> TRUE, data |-> <<>>]

\* C20: a BlockFS.WriteChunk that returns an error leaves the file system
\* as it was and returns the zero UploadResult (WriteSize 0, empty ID).
C20_FailedWriteHasNoEffect ==
    [][(store = "block" /\ last'.op = "write" /\ last'.err) =>
        /\ fs' = fs
        /\ last'.size = 0
        /\ last'.id = EmptyID]_vars

\* The bytes of the followed session's chunk i lie at file positions
\* i * chunkSize + 1 .. i * chunkSize + len(data).
Covers(i, k) ==
    sess.has[i] /\ k > i * chunkSize /\ k <= i * chunkSize + Len(sess.data[i])

\* Where the followed session's chunks end: index * chunkSize + len(data).
Extents == {i * chunkSize + Len(sess.data[i]) : i \in {j \in ChunkIds : sess.has[j]}}

\* The same, of the chunks that are not empty.
NonEmptyExtents ==
    {i * chunkSize + Len(sess.data[i]) : i \in {j \in ChunkIds : sess.has[j] /\ Len(sess.data[j]) > 0}}

\* The file of a session whose indices were written once each has length
\* len, is zero where no chunk lies, and holds a chunk's byte where exactly
\* that chunk lies.
LaidOut(d, len) ==
    /\ Len(d) = len
    /\ \A k \in 1..Len(d) :
        /\ (\A i \in ChunkIds : ~Covers(i, k)) => d[k] = 0
        /\ \A i \in ChunkIds :
            (Covers(i, k) /\ \A j \in ChunkIds \ {i} : ~Covers(j, k))
                => d[k] = sess.data[i][k - i * chunkSize]

\* A BlockFS step on the caller's file: a successful InitializeObjectUpload
\* leaves length 0; a WriteChunk with a non-negative index succeeds, puts its
\* data at index * chunkSize over what was there, keeps every other byte and
\* fills a gap with zeros; CompleteObjectUpload succeeds.
LastWriteWins ==
    LET old == fs[Resolve(objectPath)].data
        new == fs'[Resolve(objectPath)].data
        off == last'.idx * chunkSize
        n == Len(last'.data)
    IN
    /\ (last'.op = "init" /\ ~last'.err) => new = <<>>
    /\ last'.op = "complete" => ~last'.err
    /\ last'.op = "write" =>
        /\ ~last'.err
        /\ Len(new) = (IF n > 0 /\ off + n > Len(old) THEN off + n ELSE Len(old))
        /\ \A k \in 1..Len(new) :
            new[k] = (IF k > off /\ k <= off + n THEN last'.data[k - off]
                      ELSE IF k <= Len(old) THEN old[k] ELSE 0)

\* C19 as stated: in a BlockFS session the file length is the maximum of
\* index * chunkSize + len(data) over the written chunks (0 when none), a
\* byte in a written chunk's range holds that chunk's data and a byte no
\* write covers is zero.
C19_SessionLayout ==
    (store = "block" /\ Followed) =>
        LaidOut(fs[Resolve(objectPath)].data, SetMax({0} \cup Extents))

\* C19 amended: the same with the maximum taken over the chunks that are
\* not empty; and every write lays its data over what the file held (the
\* last write covering a byte wins), skipped indices going unnoticed.
C19_SessionLayoutNonEmpty ==
    /\ []((store = "block" /\ Followed) =>
            LaidOut(fs[Resolve(objectPath)].data, SetMax({0} \cup NonEmptyExtents)))
    /\ [][store = "block" => LastWriteWins]_vars

\* Index 1 was written and index 0 skipped, and CompleteObjectUpload
\* returned nil: the file starts with a zero-filled gap of chunkSize bytes.
C19_Witness ==
    /\ store = "block" /\ Followed
    /\ sess.has[1] /\ ~sess.has[0] /\ Len(sess.data[1]) > 0
    /\ last.op = "complete" /\ ~last.err
    /\ Len(fs[Resolve(objectPath)].data) = chunkSize + Len(sess.data[1])
    /\ fs[Resolve(objectPath)].data[1] = 0

\* ------------------------------------------- callers with any UploadID
\* The UploadIDs a caller passes: the one it holds, or one never issued.
CallerIDs == {HeldUploadID, BogusID}

\* The paths a caller passes to CompleteObjectUpload and to S3FS.WriteChunk:
\* the one its session was initialized with, or another.
CallPaths == {objectPath, OtherPath}

\* A caller that passes any UploadID, on a file system and a network that
\* do not fail.
NextAnyID ==
    \/ /\ uuids < MaxInits
       /\ BlockInitializeObjectUpload(objectPath, TRUE, TRUE)
    \/ \E uid \in CallerIDs, idx \in ChunkIds, data \in ShortChunkData :
        BlockWriteChunk(uid, objectPath, idx, data, TRUE)
    \/ \E uid \in CallerIDs, path \in CallPaths, man \in Manifests :
        BlockCompleteObjectUpload(uid, path, man)
    \/ S3InitializeObjectUpload(objectPath, TRUE)
    \/ \E uid \in CallerIDs, path \in CallPaths, idx \in ChunkIds, data \in ShortChunkData :
        S3WriteChunk(uid, path, idx, data, TRUE)
    \/ \E uid \in CallerIDs, path \in CallPaths, man \in Manifests :
        S3CompleteObjectUpload(uid, path, man, TRUE)

SpecAnyID == Init /\ [][NextAnyID]_vars

\* No InitializeObjectUpload on the object store returned uid for the key.
NeverIssuedFor(uid, key) ==
    \A n \in 1..Len(uploads) : ~(UploadID(n) = uid /\ uploads[n].key = key)

\* C13: S3FS rejects a WriteChunk or CompleteObjectUpload whose UploadID was
\* never issued for the path's key, changing nothing; BlockFS ignores the
\* UploadID: WriteChunk succeeds, creates the file if need be and lays the
\* data at index * chunkSize, CompleteObjectUpload returns nil, and effect
\* and result are those fixed by path, index and data alone.
C13_UnknownUploadID ==
    [][/\ (store = "s3" /\ last'.op \in {"write", "complete"}
             /\ NeverIssuedFor(last'.uid, TrimPrefix(last'.path))) =>
            /\ last'.err /\ last'.id = <<>> /\ last'.size = 0
            /\ uploads' = uploads /\ objects' = objects
       /\ (store = "block" /\ last'.op = "write") =>
            /\ LastWriteWins
            /\ fs'[Resolve(last'.path)].exists
            /\ \A f \in Files \ {Resolve(last'.path)} : fs'[f] = fs[f]
            /\ last'.id = <<>> /\ last'.size = Len(last'.data)
       /\ (store = "block" /\ last'.op = "complete") =>
            ~last'.err /\ fs' = fs]_vars

\* S3FS.WriteChunk was refused for an UploadID that was issued, but for
\* another path.
C13_Witness ==
    /\ store = "s3" /\ last.op = "write" /\ last.err
    /\ last.path = OtherPath /\ Len(uploads) = 1 /\ last.uid = UploadID(1)
    /\ uploads[1].key = TrimPrefix(objectPath)

\* C14: BlockFS.CompleteObjectUpload returns nil and leaves every file and
\* directory as it was, for every UploadID, path and manifest.
C14_BlockCompleteIsNoop ==
    [][(store = "block" /\ last'.op = "complete") =>
        (~last'.err /\ fs' = fs /\ dirs' = dirs)]_vars

\* BlockFS.CompleteObjectUpload has returned nil for an UploadID never
\* issued and a manifest with a wrong identifier, the file holding data.
C14_Witness ==
    /\ store = "block" /\ last.op = "complete" /\ ~last.err
    /\ last.uid = BogusID /\ Len(last.man) > 0 /\ last.man[1] = BogusID
    /\ last.path = objectPath /\ Len(fs[Resolve(objectPath)].data) > 0

\* ------------------------------------- construction and single-shot calls
\* Longest argument list a caller passes to DeleteObjects.
MaxPaths == 2

\* The dynamic type of the argument of NewFileStore: the two configuration
\* types, pointers to them, the nil interface, and some other type.
Configs == {"BlockFSConfig", "S3FSConfig", "*BlockFSConfig", "*S3FSConfig", "nil", "string"}

\* Mutant: the type switch also taking pointers to the configuration types.
StoreFor_Pointers(config, sessionOk) ==
    IF config \in {"BlockFSConfig", "*BlockFSConfig"} THEN [store |-> "block", err |-> FALSE]
    ELSE IF config \in {"S3FSConfig", "*S3FSConfig"} THEN [store |-> "s3", err |-> FALSE]
    ELSE [store |-> "nil", err |-> TRUE]

\* filestore.go:88-118: the type switch of NewFileStore.  sessionOk is
\* whether session.NewSession returns a session.
StoreFor(config, sessionOk) ==
    IF config = "BlockFSConfig" THEN [store |-> "block", err |-> FALSE]
    ELSE IF config = "S3FSConfig"
    THEN IF sessionOk THEN [store |-> "s3", err |-> FALSE]
         ELSE [store |-> "nil", err |-> TRUE]
    ELSE [store |-> "nil", err |-> TRUE]

\* filestore.go:87-119: store is the FileStore returned ("nil" for nil).
NewFileStore(config, sessionOk) ==
    /\ store' = StoreFor(config, sessionOk).store
    /\ last' = [op |-> "new", config |-> config, sessionOk |-> sessionOk,
                err |-> StoreFor(config, sessionOk).err]
    /\ UNCHANGED <<dirs, objectPath, fs, uuids, uploads, objects, sess, conc, pathParts>>

\* The digest of data, as a value that tells data apart.
Md5Of(data) == <<"md5">> \o data

\* filestore.go:156-162: the digest of what io.Copy reads from the handle,
\* from its file offset to the end of the file; a failing read ends the
\* process (log.Fatal).  A handle opened O_WRONLY cannot be read.
getFileMd5(content, offset, readable) ==
    IF ~readable THEN [fatal |-> TRUE, md5 |-> <<>>]
    ELSE [fatal |-> FALSE, md5 |-> Md5Of(SubSeq(content, offset + 1, Len(content)))]

\* The process runs until log.Fatal ends it.
Running == ~(last.op = "put" /\ last.fatal)

\* filesystemstore.go:90-108.  Empty data: only the directory is made.
\* Otherwise the file is opened O_WRONLY|O_CREATE (not truncated), data is
\* written at offset 0, and getFileMd5 reads from the same handle.
BlockPutObject(path, data, made, opened) ==
    /\ store = "block"
    /\ Running
    /\ LET f == Resolve(path) IN
        IF Len(data) = 0
        THEN /\ dirs' = MkdirAll(dirs, Dir(f), made)
             /\ fs' = fs
             /\ last' = [op |-> "put", path |-> path, data |-> data, opened |-> FALSE,
                         fatal |-> FALSE, err |-> MkdirAllFails(dirs, Dir(f), made),
                         nilOutput |-> FALSE, md5 |-> <<>>]
        ELSE IF ~(opened /\ CanOpen(dirs, f))
        THEN /\ UNCHANGED <<dirs, fs>>
             /\ last' = [op |-> "put", path |-> path, data |-> data, opened |-> FALSE,
                         fatal |-> FALSE, err |-> TRUE, nilOutput |-> TRUE, md5 |-> <<>>]
        ELSE LET content == WriteAt(OpenFile(fs[f]).data, data, 0)
                 digest == getFileMd5(content, Len(data), FALSE)
             IN /\ UNCHANGED dirs
                /\ fs' = [fs EXCEPT ![f] = [exists |-> TRUE, data |-> content]]
                /\ last' = [op |-> "put", path |-> path, data |-> data, opened |-> TRUE,
                            fatal |-> digest.fatal, err |-> FALSE,
                            nilOutput |-> FALSE, md5 |-> digest.md5]
    /\ UNCHANGED <<store, objectPath, uuids, uploads, objects, sess, conc, pathParts>>

\* filestore.go:164-170: whether the path names a directory that exists.
isDir(ds, p) == Resolve(p) \in ds

\* os.RemoveAll(dir): the directory goes with the files in it; returns nil.
RemoveAll(files, dir) ==
    [f \in DOMAIN files |-> IF Dir(f) = dir THEN NoFile ELSE files[f]]

RECURSIVE RemoveEach(_, _, _, _, _)
\* filesystemstore.go:79-87: the loop of DeleteObjects over its arguments,
\* from directories ds, files and the error err kept so far: every removal
\* assigns err anew.  failed notes whether some removal returned an error.
RemoveEach(ds, files, err, failed, paths) ==
    IF paths = <<>> THEN [dirs |-> ds, fs |-> files, err |-> err, failed |-> failed]
    ELSE LET p == Head(paths)
             f == Resolve(p)
         IN IF isDir(ds, p)
            THEN RemoveEach(ds \ {f}, RemoveAll(files, f), FALSE, failed, Tail(paths))
            ELSE IF f \in DOMAIN files /\ files[f].exists
            THEN RemoveEach(ds, [files EXCEPT ![f] = NoFile], FALSE, failed, Tail(paths))
            ELSE RemoveEach(ds, files, TRUE, TRUE, Tail(paths))

\* filesystemstore.go:87: DeleteObjects returns the error of the last removal.
DeleteError(removed) == removed.err

\* filesystemstore.go:78-88
BlockDeleteObjects(paths) ==
    /\ store = "block"
    /\ Running
    /\ LET removed == RemoveEach(dirs, fs, FALSE, FALSE, paths) IN
        /\ dirs' = removed.dirs
        /\ fs' = removed.fs
        /\ last' = [op |-> "delete", paths |-> paths, failed |-> removed.failed,
                    err |-> DeleteError(removed)]
    /\ UNCHANGED <<store, objectPath, uuids, uploads, objects, sess, conc, pathParts>>

\* The paths a caller passes to PutObject and DeleteObjects: two files, one
\* of them under a directory, and that directory.
ObjectNames == {NestedPath, OtherPath, <<"d">>}

\* Argument lists of DeleteObjects.
PathLists == UNION {[1..n -> ObjectNames] : n \in 0..MaxPaths}

\* A file that was at OtherPath before the process started.
OldFile == [exists |-> TRUE, data |-> Fill(2, chunkSize + 1)]

\* No store yet; the file system may hold a file from before.
InitStore ==
    /\ store = "nil"
    /\ objectPath = NestedPath
    /\ dirs = BaseDirs
    /\ pp = NoPathParts
    /\ tp = <<>>
    /\ \E old \in {NoFile, OldFile} :
        fs = [f \in Files |-> IF f = Resolve(OtherPath) THEN old ELSE NoFile]
    /\ uuids = 0
    /\ uploads = <<>>
    /\ objects = [k \in {S3Key(p) : p \in Paths} |-> NoObject]
    /\ last = NoCall
    /\ sess = NoSession
    /\ NoCalls

\* A process that makes stores and, on a block store, initializes uploads,
\* puts and deletes objects, on a file system that may fail.
NextStore ==
    \/ /\ Running
       /\ \E config \in Configs, sessionOk \in BOOLEAN : NewFileStore(config, sessionOk)
    \/ /\ Running
       /\ uuids < MaxInits
       /\ \E made \in BOOLEAN, created \in BOOLEAN :
            BlockInitializeObjectUpload(objectPath, made, created)
    \/ \E path \in {NestedPath, OtherPath}, data \in ChunkData, made \in BOOLEAN, opened \in BOOLEAN :
        BlockPutObject(path, data, made, opened)
    \/ \E paths \in PathLists : BlockDeleteObjects(paths)

SpecStore == InitStore /\ [][NextStore]_vars

\* C12: NewFileStore returns a BlockFS and nil for a BlockFSConfig value, an
\* S3FS and nil (or nil and the session error) for an S3FSConfig value, nil
\* and an error for every other argument, pointers to the configuration
\* types and nil included; never a store together with an error.
C12_NewFileStoreDispatch ==
    last.op = "new" =>
        /\ last.config = "BlockFSConfig" => (store = "block" /\ ~last.err)
        /\ last.config = "S3FSConfig" =>
            (IF last.sessionOk THEN store = "s3" /\ ~last.err ELSE store = "nil" /\ last.err)
        /\ last.config \notin {"BlockFSConfig", "S3FSConfig"} => (store = "nil" /\ last.err)
        /\ ~(store # "nil" /\ last.err)

\* NewFileStore was given a pointer to a BlockFSConfig while a block store
\* made earlier had files: it returned nil and an error.
C12_Witness ==
    /\ last.op = "new" /\ last.config = "*BlockFSConfig"
    /\ store = "nil" /\ last.err
    /\ fs[Resolve(NestedPath)].exists

\* C15: BlockFS.DeleteObjects returns an error whenever a removal failed,
\* and BlockFS.InitializeObjectUpload returns an error whenever the
\* directory of the file could not be made.
C15_NoErrorSuppressed ==
    /\ (last.op = "delete" /\ last.failed) => last.err
    /\ (last.op = "init" /\ Dir(Resolve(last.path)) \notin dirs) => last.err

\* C18: a BlockFS.PutObject of non-empty data whose file could be opened
\* returns (the process goes on), without error, leaves exactly data in the
\* file and returns the digest of data.
C18_PutObjectRoundTrip ==
    (last.op = "put" /\ Len(last.data) > 0 /\ last.opened) =>
        /\ ~last.fatal
        /\ ~last.err
        /\ fs[Resolve(last.path)].data = last.data
        /\ last.md5 = Md5Of(last.data)

\* ------------------------------------------------------------- PathParts
\* Strings are sequences of characters.  Longest part a caller passes.
MaxPartLen == 3

\* Spare capacity of the backing array of pp.Parts, at most.
MaxSpare == 1

\* The characters of a part: the dot, the separator, and another character.
PathChars == {".", "/", "a"}

StringsOf(n) == UNION {[1..k -> PathChars] : k \in 0..n}

PartStrings == StringsOf(MaxPartLen)

\* Lists of parts: none, one part of any form, or two short parts.
PartLists ==
    {<<>>} \cup {<<s>> : s \in PartStrings}
           \cup {<<s, t>> : s \in StringsOf(1), t \in StringsOf(1)}

RECURSIVE ReplaceAll(_, _, _)
\* strings.ReplaceAll(s, old, new), old not empty: the occurrences of old
\* from the left, none overlapping another, each replaced by new.
ReplaceAll(s, old, new) ==
    IF Len(s) < Len(old) THEN s
    ELSE IF SubSeq(s, 1, Len(old)) = old
    THEN new \o ReplaceAll(SubSeq(s, Len(old) + 1, Len(s)), old, new)
    ELSE <<Head(s)>> \o ReplaceAll(Tail(s), old, new)

RECURSIVE TrimLeft(_, _)
TrimLeft(s, c) == IF s # <<>> /\ Head(s) = c THEN TrimLeft(Tail(s), c) ELSE s

RECURSIVE TrimRight(_, _)
TrimRight(s, c) ==
    IF s # <<>> /\ s[Len(s)] = c THEN TrimRight(SubSeq(s, 1, Len(s) - 1), c) ELSE s

\* strings.Trim(s, c) for a cutset of the one character c.
Trim(s, c) == TrimRight(TrimLeft(s, c), c)

\* Mutant: the path returned as it was built.
sanitizePath_Keeping(path) == path

\* filestore.go:135-137
sanitizePath(path) == ReplaceAll(path, <<".", ".">>, <<>>)

RECURSIVE JoinParts(_)
\* filestore.go:143-149: the loop of buildUrl over the parts.
JoinParts(urlparts) ==
    IF urlparts = <<>> THEN <<>>
    ELSE LET p == Trim(ReplaceAll(Head(urlparts), <<"/", "/">>, <<"/">>), "/")
         IN (IF p # <<>> THEN <<"/">> \o p ELSE <<>>) \o JoinParts(Tail(urlparts))

\* filestore.go:140-154
buildUrl(urlparts, pathType) ==
    sanitizePath(JoinParts(urlparts) \o (IF pathType = "FOLDER" THEN <<"/">> ELSE <<>>))

\* The callers of ToPath / ToFilePath on one PathParts value.
PathCallers == {1, 2}

IdleCall ==
    [pc |-> "idle", pathType |-> "FOLDER", add |-> <<>>, shared |-> FALSE,
     own |-> <<>>, n |-> 0, result |-> <<>>]

\* pp.Parts: the first pp.len elements of the backing array.
Parts == SubSeq(pp.arr, 1, pp.len)

\* filestore.go:126, 131: parts := append(pp.Parts, additionalParts...) in
\* ToPath (pathType FOLDER) and ToFilePath (pathType FILE).  With room in
\* the backing array append writes the additional parts into it, after
\* pp.Parts, and the slice it returns shares the array; without room it
\* returns a slice of an array of its own.
ToPathAppend(g, pathType, additionalParts) ==
    /\ tp[g].pc = "idle"
    /\ LET n == pp.len + Len(additionalParts) IN
        IF n <= Len(pp.arr)
        THEN /\ pp' = [pp EXCEPT !.arr =
                        [k \in 1..Len(pp.arr) |->
                            IF k > pp.len /\ k <= n THEN additionalParts[k - pp.len]
                            ELSE pp.arr[k]]]
             /\ tp' = [tp EXCEPT ![g] =
                        [pc |-> "appended", pathType |-> pathType, add |-> additionalParts,
                         shared |-> TRUE, own |-> <<>>, n |-> n, result |-> <<>>]]
        ELSE /\ pp' = pp
             /\ tp' = [tp EXCEPT ![g] =
                        [pc |-> "appended", pathType |-> pathType, add |-> additionalParts,
                         shared |-> FALSE, own |-> Parts \o additionalParts, n |-> n,
                         result |-> <<>>]]
    /\ UNCHANGED <<dirs, store, objectPath, fs, uuids, uploads, objects, last, sess, conc>>

\* filestore.go:127, 132: return buildUrl(parts, ...), reading the elements
\* of the slice append returned.
ToPathBuild(g) ==
    /\ tp[g].pc = "appended"
    /\ LET parts == IF tp[g].shared THEN SubSeq(pp.arr, 1, tp[g].n) ELSE tp[g].own IN
        tp' = [tp EXCEPT ![g].pc = "returned", ![g].result = buildUrl(parts, tp[g].pathType)]
    /\ UNCHANGED <<dirs, store, objectPath, fs, uuids, uploads, objects, last, sess, conc, pp>>

\* No store is involved.
NoStore ==
    /\ store = "nil"
    /\ objectPath = <<"a">>
    /\ dirs = BaseDirs
    /\ fs = [f \in Files |-> NoFile]
    /\ uuids = 0
    /\ uploads = <<>>
    /\ objects = [k \in {S3Key(p) : p \in Paths} |-> NoObject]
    /\ last = NoCall
    /\ sess = NoSession
    /\ NoCalls

\* A PathParts value with any parts, its slice full, and no call running.
InitPath ==
    /\ NoStore
    /\ \E parts \in PartLists : pp = [arr |-> parts, len |-> Len(parts)]
    /\ tp = [g \in PathCallers |-> IdleCall]

\* One call of ToPath or ToFilePath with any additional parts.
NextPath ==
    \/ \E pathType \in {"FOLDER", "FILE"}, additionalParts \in PartLists :
        ToPathAppend(1, pathType, additionalParts)
    \/ ToPathBuild(1)

SpecPath == InitPath /\ [][NextPath]_vars

RECURSIVE Contains(_, _)
\* Whether sub occurs in s.
Contains(s, sub) ==
    /\ Len(s) >= Len(sub)
    /\ (SubSeq(s, 1, Len(sub)) = sub \/ Contains(Tail(s), sub))

\* C16: the string ToPath or ToFilePath returns holds no "..".
C16_NoDotDot ==
    \A g \in DOMAIN tp :
        tp[g].pc = "returned" => ~Contains(tp[g].result, <<".", ".">>)

\* A call has returned for parts that hold "..": once with three dots (one
\* dot is left), once between separators.
C16_Witness ==
    /\ tp[1].pc = "returned"
    /\ pp.len = 1 /\ pp.arr[1] = <<".", ".", ".">>
    /\ tp[1].add = <<<<".", ".", "/">>>>
    /\ tp[1].pathType = "FILE"
    /\ tp[1].result = <<"/", ".", "/">>

\* ----------------------------------------- concurrent ToPath / ToFilePath
\* The part pp holds, and the additional part each caller passes.
HeldPart == <<"p">>

OwnPart(g) == IF g = 1 THEN <<"x">> ELSE <<"y">>

\* A PathParts value holding one part, its backing array with up to
\* MaxSpare spare elements (empty strings), and no call running.
InitPathConc ==
    /\ NoStore
    /\ \E spare \in 0..MaxSpare :
        pp = [arr |-> <<HeldPart>> \o [k \in 1..spare |-> <<>>], len |-> 1]
    /\ tp = [g \in PathCallers |-> IdleCall]

\* Each caller calls ToPath or ToFilePath once, with no additional part or
\* with its own; the calls run one after another or at the same time.
NextPathConc ==
    \/ \E g \in PathCallers, pathType \in {"FOLDER", "FILE"} :
        \E additionalParts \in {<<>>, <<OwnPart(g)>>} :
            ToPathAppend(g, pathType, additionalParts)
    \/ \E g \in PathCallers : ToPathBuild(g)

SpecPathConc == InitPathConc /\ [][NextPathConc]_vars

\* C17: every call of ToPath / ToFilePath returns the path built from
\* pp.Parts followed by its own additional parts, and pp.Parts stays as it
\* was.
C17_CallsDoNotInterfere ==
    /\ Parts = <<HeldPart>>
    /\ \A g \in DOMAIN tp :
        tp[g].pc = "returned" =>
            tp[g].result = buildUrl(<<HeldPart>> \o tp[g].add, tp[g].pathType)

=============================================================================
